---- MODULE Spec2Model ----
(***************************************************************************)
(* Model of procstar's WebSocket service (python/procstar/ws_service.py)   *)
(* and of the message decoding it relies on (python/procstar/proto.py).    *)
(*                                                                         *)
(* The state is the connection registry (Connections), the process tracker *)
(* (Server._Processes), the futures handed out by Process.wait(), the      *)
(* sockets with the position of the handler coroutine serving each one,    *)
(* and the start() and delete() calls in flight.  One action is one run of *)
(* a coroutine between two suspension points (await) of the source.        *)
(*                                                                         *)
(* The handler reads the Register message through msg.conn_id and          *)
(* msg.group (ws_service.py:379,392,406); the model's Register frame       *)
(* carries those two values and the access token.                          *)
(***************************************************************************)
EXTENDS Integers, Sequences, FiniteSets, TLC

\* ---------------------------------------------------------------- bounds
MaxSockets == 2
NumConnIds == 2
NumGroups == 2
NumAddresses == 2
NumProcIds == 2
NumResults == 2
MaxFuts == 2
MaxCalls == 1
NumSubs == 2

Sockets == 1..MaxSockets
ConnIds == 1..NumConnIds
Groups == 1..NumGroups
ProcIds == 1..NumProcIds
Results == 1..NumResults
FutIds == 1..MaxFuts
CallIds == 1..MaxCalls
SubIds == 1..NumSubs

Addresses == 1..NumAddresses

\* Access tokens an agent can be started with.
Tokens == {"secret", "wrong"}

\* The access token the deployment configures the server with (the test
\* assembly passes one to the server it starts).
access_token == "secret"

\* Python's None (Process.result before any result, the deleted sentinel).
None == 0

VARIABLES
    wsState,        \* per socket: "none", "open", "closing", "closed"
    remote,         \* per socket: ws.remote_address as ConnectionInfo
    agent_token,    \* per socket: the token its agent was started with
    pc,             \* per socket: position of _serve_connection
    local_conn_id,  \* per socket: the handler's local variable conn_id
    conns,          \* Connections.__conns : conn_id -> Connection
    groups,         \* Connections.__groups : group -> set of conn_id
    waitingQ,       \* Connections.__waiting : the subscribers' queues
    procs,          \* Server._Processes.__procs : proc_id -> Process
    fut,            \* the futures returned by Process.wait()
    calls,          \* the start() and delete() calls: arguments, position, frame
    codec_msg,      \* the message object last given to serialize_message
    codec_wire,     \* what serialize_message returned, or a frame of the peer
    codec_obj       \* what deserialize_message returned for codec_wire

vars == <<wsState, remote, agent_token, pc, local_conn_id, conns,
          groups, waitingQ, procs, fut, calls, codec_msg, codec_wire,
          codec_obj>>

regVars == <<conns, groups, waitingQ>>
sockVars == <<wsState, remote, agent_token, pc, local_conn_id>>
procVars == <<procs, fut>>
codecVars == <<codec_msg, codec_wire, codec_obj>>

\* ------------------------------------------------------- dict helpers
EmptyMap == [x \in {} |-> 0]

MapSet(m, k, v) == [x \in (DOMAIN m) \cup {k} |-> IF x = k THEN v ELSE m[x]]

MapDel(m, k) == [x \in (DOMAIN m) \ {k} |-> m[x]]

\* ------------------------------------------------------------- codec
\* A WebSocket frame as deserialize_message sees it: whether it is a binary
\* frame, whether msgpack.loads accepts it, whether the payload is a dict,
\* its "type" entry ("" when the key is missing), whether the remaining
\* entries construct the message class, and the fields of the message.
BlankFrame ==
    [binary |-> TRUE, unpacks |-> TRUE, isdict |-> TRUE, type |-> "",
     valid |-> TRUE, conn_id |-> 0, group |-> 0, access_token |-> "",
     proc_id |-> 0, proc_ids |-> {}, res |-> 0]

INCOMING_MESSAGE_TYPES ==
    {"IncomingMessageError", "ProcDelete", "ProcResult", "ProcFdData",
     "ProcUnknown", "ProcidList", "Register"}

RegisterFrames ==
    {[BlankFrame EXCEPT !.type = "Register", !.conn_id = c, !.group = g,
                        !.access_token = t] :
        c \in ConnIds, g \in Groups, t \in Tokens}

ProcFrames ==
    {[BlankFrame EXCEPT !.type = "ProcidList", !.proc_ids = ids] :
        ids \in SUBSET ProcIds}
    \cup {[BlankFrame EXCEPT !.type = "ProcResult", !.proc_id = p, !.res = r] :
            p \in ProcIds, r \in Results}
    \cup {[BlankFrame EXCEPT !.type = t, !.proc_id = p] :
            t \in {"ProcDelete", "ProcUnknown", "ProcFdData"}, p \in ProcIds}
    \cup {[BlankFrame EXCEPT !.type = "IncomingMessageError"]}

BadFrames ==
    {[BlankFrame EXCEPT !.binary = FALSE],
     [BlankFrame EXCEPT !.unpacks = FALSE],
     [BlankFrame EXCEPT !.isdict = FALSE],
     BlankFrame,
     [BlankFrame EXCEPT !.type = "ProcStart"],
     [BlankFrame EXCEPT !.type = "ProcResult", !.valid = FALSE],
     [BlankFrame EXCEPT !.type = "Register", !.valid = FALSE]}

Frames == RegisterFrames \cup ProcFrames \cup BadFrames

ProtocolError(text) == [ok |-> FALSE, error |-> text, type |-> "", obj |-> BlankFrame]

deserialize_message(msg) ==
    IF ~msg.binary THEN ProtocolError("wrong ws msg type")
    ELSE IF ~msg.unpacks THEN ProtocolError("ws msg JSON error")
    ELSE IF ~msg.isdict THEN ProtocolError("msg not a dict")
    ELSE IF msg.type = "" THEN ProtocolError("msg missing type")
    ELSE IF msg.type \notin INCOMING_MESSAGE_TYPES THEN ProtocolError("unknown msg type")
    ELSE IF ~msg.valid THEN ProtocolError("invalid msg")
    ELSE [ok |-> TRUE, error |-> "", type |-> msg.type, obj |-> msg]

OUTGOING_MESSAGE_TYPES ==
    {"Registered", "ProcStart", "ProcidListRequest", "ProcResultRequest",
     "ProcSignalRequest", "ProcFdDataRequest", "ProcDeleteRequest"}

\* An instance of a message class: the name of its class and the fields the
\* model follows (ProcStart.specs is followed by its keys, in proc_ids).
Message(cls) ==
    [cls |-> cls, conn_id |-> 0, group |-> 0, access_token |-> "",
     proc_id |-> 0, proc_ids |-> {}, res |-> 0]

OutgoingMessages ==
    {Message("Registered"), Message("ProcidListRequest")}
    \cup {[Message("ProcStart") EXCEPT !.proc_ids = ids] : ids \in SUBSET ProcIds}
    \cup {[Message(t) EXCEPT !.proc_id = p] :
            t \in {"ProcResultRequest", "ProcSignalRequest", "ProcFdDataRequest",
                   "ProcDeleteRequest"},
            p \in ProcIds}

IncomingMessages ==
    {[Message("Register") EXCEPT !.conn_id = c, !.group = g, !.access_token = t] :
        c \in ConnIds, g \in Groups, t \in Tokens}
    \cup {[Message("ProcidList") EXCEPT !.proc_ids = ids] : ids \in SUBSET ProcIds}
    \cup {[Message("ProcResult") EXCEPT !.proc_id = p, !.res = r] :
            p \in ProcIds, r \in Results}
    \cup {[Message(t) EXCEPT !.proc_id = p] :
            t \in {"ProcDelete", "ProcUnknown", "ProcFdData"}, p \in ProcIds}
    \cup {Message("IncomingMessageError")}

Messages == OutgoingMessages \cup IncomingMessages

\* msgpack.dumps({"type": type} | msg.__dict__): a binary frame holding a
\* dict with the class name under "type" next to the fields.
msgpack_dumps(type, msg) ==
    [BlankFrame EXCEPT !.type = type, !.conn_id = msg.conn_id,
                       !.group = msg.group, !.access_token = msg.access_token,
                       !.proc_id = msg.proc_id, !.proc_ids = msg.proc_ids,
                       !.res = msg.res]

\* serialize_message: the lookup OUTGOING_MESSAGE_TYPES[type] of line 89
\* raises KeyError for a class that is not an outgoing one.
serialize_message(msg) ==
    IF msg.cls \notin OUTGOING_MESSAGE_TYPES
    THEN [ok |-> FALSE, error |-> "KeyError", data |-> BlankFrame]
    ELSE [ok |-> TRUE, error |-> "", data |-> msgpack_dumps(msg.cls, msg)]

\* The instance deserialize_message builds from the dict (lines 252-257).
from_jso(type, jso) ==
    [cls |-> type, conn_id |-> jso.conn_id, group |-> jso.group,
     access_token |-> jso.access_token, proc_id |-> jso.proc_id,
     proc_ids |-> jso.proc_ids, res |-> jso.res]

NoMsg == Message("")

NoWire == [ok |-> FALSE, error |-> "", data |-> BlankFrame]

NoObj == [ok |-> FALSE, error |-> "", type |-> "", obj |-> BlankFrame]

\* ---------------------------------------------------------- registry
ConnectionInfo(address, port) == [address |-> address, port |-> port]

Connection(conn_id, info, ws, group) ==
    [conn_id |-> conn_id, info |-> info, ws |-> ws, group |-> group]

\* Mutant of Connection_open: every record counts as open.
Connection_open_always(conn, states) == TRUE

\* Connection.open: the state of the socket now attached to the record.
Connection_open(conn, states) == states[conn.ws] = "open"

\* Mutant of Connections_event: the event reaches no queue.
Connections_event_dropped(queues, conn_id, present) == queues

\* Connections.__event: put the event on every subscriber's queue.
Connections_event(queues, conn_id, present) ==
    [q \in DOMAIN queues |-> Append(queues[q], <<conn_id, present>>)]

\* Mutant of Connections_add: the group index is not updated.
Connections_add_no_group(cs, gs, queues, conn) ==
    [conns |-> MapSet(cs, conn.conn_id, conn),
     groups |-> gs,
     waiting |-> Connections_event(queues, conn.conn_id, TRUE)]

\* Mutant of Connections_add: the add event is put on the queues twice.
Connections_add_event_twice(cs, gs, queues, conn) ==
    [conns |-> MapSet(cs, conn.conn_id, conn),
     groups |-> MapSet(gs, conn.group,
                       (IF conn.group \in DOMAIN gs THEN gs[conn.group] ELSE {})
                           \cup {conn.conn_id}),
     waiting |-> Connections_event(
                     Connections_event(queues, conn.conn_id, TRUE),
                     conn.conn_id, TRUE)]

\* Connections._add: the three containers after the insertion.
Connections_add(cs, gs, queues, conn) ==
    [conns |-> MapSet(cs, conn.conn_id, conn),
     groups |-> MapSet(gs, conn.group,
                       (IF conn.group \in DOMAIN gs THEN gs[conn.group] ELSE {})
                           \cup {conn.conn_id}),
     waiting |-> Connections_event(queues, conn.conn_id, TRUE)]

\* Connections._pop: the three containers after the removal.
Connections_pop(cs, gs, queues, conn_id) ==
    LET group == cs[conn_id].group
        rest == gs[group] \ {conn_id}
    IN  [conns |-> MapDel(cs, conn_id),
         groups |-> IF rest = {} THEN MapDel(gs, group) ELSE MapSet(gs, group, rest),
         waiting |-> Connections_event(queues, conn_id, FALSE)]

\* Connections.choose_connection: the error raised, or the connections that
\* random.choice picks from.
choose_connection(cs, gs, states, group) ==
    IF group \notin DOMAIN gs
    THEN [error |-> "NoGroupError", connections |-> {}]
    ELSE LET connections == {i \in gs[group] : Connection_open(cs[i], states)}
         IN  IF connections = {}
             THEN [error |-> "NoOpenConnectionInGroup", connections |-> {}]
             ELSE [error |-> "", connections |-> connections]

\* ----------------------------------------------------------- tracker
\* Process.__init__
Process(conn_id, proc_id) ==
    [proc_id |-> proc_id, conn_id |-> conn_id, result |-> None,
     errors |-> <<>>, waiting |-> {}]

NoFuture == [state |-> "none", val |-> None]

\* Process._awake over the set `waiting`: the loop calls fut.set_result(res)
\* in the set's iteration order, which the program does not control.
\* set_result raises InvalidStateError on a future that is not pending
\* (cancelled, or already resolved); the futures visited before it got the
\* result and __waiting.clear() is not reached.
Process_awake(waiting, futs, res) ==
    LET pending == {f \in waiting : futs[f].state = "pending"}
        resolve(R) == [f \in DOMAIN futs |->
                          IF f \in R THEN [state |-> "done", val |-> res]
                          ELSE futs[f]]
    IN  IF pending = waiting
        THEN {[fut |-> resolve(waiting), raised |-> FALSE]}
        ELSE {[fut |-> resolve(R), raised |-> TRUE] : R \in SUBSET pending}

\* get_proc of on_message: the tracker after the lookup-or-create.
get_proc(ps, conn_id, proc_id) ==
    IF proc_id \in DOMAIN ps THEN ps
    ELSE MapSet(ps, proc_id, Process(conn_id, proc_id))

\* Mutant of get_procs: every listed id gets a fresh Process.
get_procs_resets(ps, conn_id, proc_ids) ==
    [x \in (DOMAIN ps) \cup proc_ids |->
        IF x \in proc_ids THEN Process(conn_id, x) ELSE ps[x]]

\* Lines 275-276: get_proc for each listed id; the ids do not interfere, so
\* the order of the loop does not matter.
get_procs(ps, conn_id, proc_ids) ==
    [x \in (DOMAIN ps) \cup proc_ids |->
        IF x \in DOMAIN ps THEN ps[x] ELSE Process(conn_id, x)]

\* Server._Processes.on_message: the possible results of handling one
\* message: the tracker, the futures, and whether an exception leaves
\* on_message.
on_message(conn_id, msg, ps, futs) ==
    IF msg.type = "ProcidList"
    THEN {[procs |-> get_procs(ps, conn_id, msg.proc_ids),
           fut |-> futs, raised |-> FALSE]}
    ELSE IF msg.type = "ProcResult"
    THEN LET ps1 == get_proc(ps, conn_id, msg.proc_id)
             ps2 == [ps1 EXCEPT ![msg.proc_id].result = msg.res]
         IN  {[procs |-> IF o.raised THEN ps2
                         ELSE [ps2 EXCEPT ![msg.proc_id].waiting = {}],
               fut |-> o.fut, raised |-> o.raised] :
                 o \in Process_awake(ps2[msg.proc_id].waiting, futs, msg.res)}
    ELSE IF msg.type = "ProcDelete"
    THEN LET ps1 == get_proc(ps, conn_id, msg.proc_id)
         IN  {[procs |-> MapDel(ps1, msg.proc_id), fut |-> o.fut,
               raised |-> o.raised] :
                 o \in Process_awake(ps1[msg.proc_id].waiting, futs, None)}
    ELSE IF msg.type = "IncomingMessageError"
    THEN {[procs |-> ps, fut |-> futs, raised |-> TRUE]}
    ELSE {[procs |-> ps, fut |-> futs, raised |-> FALSE]}

\* Server._Processes.create: the assertion, then the insertion.
create_allowed(ps, proc_id) == proc_id \notin DOMAIN ps

\* Mutant of create: the Process is not stored.
create_not_stored(ps, conn_id, proc_id) == ps

create(ps, conn_id, proc_id) == MapSet(ps, proc_id, Process(conn_id, proc_id))

\* ------------------------------------------------------------ sockets
\* `await ws.close()`: an open socket starts its closing handshake.
ws_close(state) == IF state = "open" THEN "closing" ELSE state

\* Mutant of serve_done: the socket of a finished handler is left as it is.
serve_done_leaves_open(state) == state

\* websockets closes the connection as soon as the handler passed to
\* serve() returns or raises: an open socket starts its closing handshake.
serve_done(state) == IF state = "open" THEN "closing" ELSE state

\* A call of start() or delete(): its position, arguments, the connection
\* it picked, the socket ws.send() was called on (target) and the socket
\* whose transport got the frame (ws, 0 when nothing was written).
NoCall ==
    [pc |-> "idle", kind |-> "none", proc_id |-> 0, group |-> 0, conn_id |-> 0,
     ws |-> 0, target |-> 0]

NoInfo == ConnectionInfo(0, 0)

\* The shape of the state: the fields of Connection, Process and the
\* futures, and the positions of _serve_connection and start.
TypeOK ==
    /\ wsState \in [Sockets -> {"none", "open", "closing", "closed"}]
    /\ \A s \in Sockets :
          /\ remote[s].address \in Addresses \cup {0}
          /\ remote[s].port \in Sockets \cup {0}
          /\ agent_token[s] \in Tokens \cup {""}
    /\ pc \in [Sockets -> {"none", "await_register", "login_close", "ret_login",
                           "ret_group", "exc_assert", "reading", "ret_closed",
                           "exc_loop"}]
    /\ local_conn_id \in [Sockets -> ConnIds \cup {0}]
    /\ DOMAIN conns \subseteq ConnIds
    /\ \A c \in DOMAIN conns :
          /\ conns[c].ws \in Sockets
          /\ conns[c].group \in Groups
          /\ conns[c].info = remote[conns[c].ws]
    /\ DOMAIN groups \subseteq Groups
    /\ \A g \in DOMAIN groups : groups[g] \subseteq ConnIds /\ groups[g] # {}
    /\ DOMAIN waitingQ \subseteq SubIds
    /\ \A q \in DOMAIN waitingQ : Len(waitingQ[q]) <= NumConnIds
    /\ DOMAIN procs \subseteq ProcIds
    /\ \A p \in DOMAIN procs :
          /\ procs[p].proc_id = p
          /\ procs[p].conn_id \in ConnIds
          /\ procs[p].result \in Results \cup {None}
          /\ procs[p].waiting \subseteq FutIds
    /\ \A f \in FutIds :
          /\ fut[f].state \in {"none", "pending", "done", "cancelled"}
          /\ fut[f].val \in Results \cup {None}
    /\ \A k \in CallIds :
          /\ calls[k].pc \in {"idle", "sending", "returned", "NoGroupError",
                              "NoOpenConnectionInGroup", "AssertionError",
                              "ConnectionClosedOK", "KeyError"}
          /\ calls[k].kind \in {"none", "start", "delete"}
          /\ calls[k].ws \in {0, calls[k].target}
          /\ calls[k].target \in Sockets \cup {0}

Init ==
    /\ wsState = [s \in Sockets |-> "none"]
    /\ remote = [s \in Sockets |-> NoInfo]
    /\ agent_token = [s \in Sockets |-> ""]
    /\ pc = [s \in Sockets |-> "none"]
    /\ local_conn_id = [s \in Sockets |-> 0]
    /\ conns = EmptyMap
    /\ groups = EmptyMap
    /\ waitingQ = EmptyMap
    /\ procs = EmptyMap
    /\ fut = [f \in FutIds |-> NoFuture]
    /\ calls = [k \in CallIds |-> NoCall]
    /\ codec_msg = NoMsg
    /\ codec_wire = NoWire
    /\ codec_obj = NoObj

\* A new socket reaches _serve_connection (lines 353-358).  Sockets are
\* numbered in the order they are accepted, and the peer's port is the
\* socket's own.  The agent behind it was started with `token`.
Accept(s, address, token) ==
    /\ wsState[s] = "none"
    /\ \A t \in Sockets : t < s => wsState[t] # "none"
    /\ wsState' = [wsState EXCEPT ![s] = "open"]
    /\ remote' = [remote EXCEPT ![s] = ConnectionInfo(address, s)]
    /\ agent_token' = [agent_token EXCEPT ![s] = token]
    /\ pc' = [pc EXCEPT ![s] = "await_register"]
    /\ UNCHANGED <<local_conn_id, regVars, procVars, calls>>
    /\ UNCHANGED codecVars

\* The agent starts the closing handshake of its socket.
PeerClose(s) ==
    /\ wsState[s] = "open"
    /\ wsState' = [wsState EXCEPT ![s] = "closing"]
    /\ UNCHANGED <<remote, agent_token, pc, local_conn_id, regVars,
                   procVars, calls>>
    /\ UNCHANGED codecVars

\* The connection of a socket ends: the closing handshake completes, or
\* the transport is lost.
ConnectionLost(s) ==
    /\ wsState[s] \in {"open", "closing"}
    /\ wsState' = [wsState EXCEPT ![s] = "closed"]
    /\ UNCHANGED <<remote, agent_token, pc, local_conn_id, regVars,
                   procVars, calls>>
    /\ UNCHANGED codecVars

\* ---------------------------------------------------------- handshake
\* Line 363 timed out: ProtocolError, then `await ws.close()` (line 376).
LoginTimeout(s) ==
    /\ pc[s] = "await_register"
    /\ pc' = [pc EXCEPT ![s] = "login_close"]
    /\ wsState' = [wsState EXCEPT ![s] = ws_close(wsState[s])]
    /\ UNCHANGED <<remote, agent_token, local_conn_id, regVars,
                   procVars, calls>>
    /\ UNCHANGED codecVars

\* Line 363: the socket closed before a frame arrived.
LoginClosed(s) ==
    /\ pc[s] = "await_register"
    /\ wsState[s] = "closed"
    /\ pc' = [pc EXCEPT ![s] = "login_close"]
    /\ UNCHANGED <<wsState, remote, agent_token, local_conn_id,
                   regVars, procVars, calls>>
    /\ UNCHANGED codecVars

\* Mutant of login_accepts: the type of the first message is not checked.
login_accepts_any_type(msg) == deserialize_message(msg).ok

\* Lines 370-372: only a frame that decodes to a Register passes.
login_accepts(msg) ==
    LET d == deserialize_message(msg) IN d.ok /\ d.type = "Register"

\* Lines 370-377: the first frame is not a Register.
LoginReject(s, msg) ==
    /\ pc[s] = "await_register"
    /\ wsState[s] = "open"
    /\ ~login_accepts(msg)
    /\ pc' = [pc EXCEPT ![s] = "login_close"]
    /\ wsState' = [wsState EXCEPT ![s] = ws_close(wsState[s])]
    /\ UNCHANGED <<remote, agent_token, local_conn_id, regVars,
                   procVars, calls>>
    /\ UNCHANGED codecVars

\* Line 376-377: `await ws.close()` returns once the socket is closed.
LoginCloseDone(s) ==
    /\ pc[s] = "login_close"
    /\ wsState[s] = "closed"
    /\ pc' = [pc EXCEPT ![s] = "ret_login"]
    /\ UNCHANGED <<wsState, remote, agent_token, local_conn_id,
                   regVars, procVars, calls>>
    /\ UNCHANGED codecVars

\* Lines 408 and 414 call ws.close() without awaiting it: close() is a
\* coroutine function, so the call builds a coroutine object that never
\* runs and the socket stays as it is.
unawaited_close(state) == state

\* Mutant of group_changed: the group of a reconnect is not compared.
group_changed_ignored(msg, connection) == FALSE

\* Line 406.
group_changed(msg, connection) == msg.group # connection.group

\* Line 412.
old_socket_not_closed(connection, states) == states[connection.ws] # "closed"

\* Mutant of rebind: the record keeps the socket and info it had.
rebind_keeps_old(connection, info, ws, group) == connection

\* Lines 418-420.
rebind(connection, info, ws, group) ==
    [connection EXCEPT !.info = info, !.ws = ws, !.group = group]

\* Lines 379-420, run without suspension when the Register frame arrives:
\* insert a new Connection, or rebind the one with this conn_id.
Register(s, msg) ==
    /\ pc[s] = "await_register"
    /\ wsState[s] = "open"
    /\ login_accepts(msg)
    /\ msg.type = "Register" => msg.access_token = agent_token[s]
    /\ IF msg.conn_id \notin DOMAIN conns
       THEN LET r == Connections_add(conns, groups, waitingQ,
                        Connection(msg.conn_id, remote[s], s, msg.group))
            IN  /\ conns' = r.conns
                /\ groups' = r.groups
                /\ waitingQ' = r.waiting
                /\ pc' = [pc EXCEPT ![s] = "reading"]
                /\ local_conn_id' = [local_conn_id EXCEPT ![s] = msg.conn_id]
                /\ UNCHANGED wsState
       ELSE LET connection == conns[msg.conn_id]
                new_closed == [wsState EXCEPT ![s] = unawaited_close(wsState[s])]
                old_closed == [wsState EXCEPT ![connection.ws] =
                                  unawaited_close(wsState[connection.ws])]
            IN  IF group_changed(msg, connection)
                THEN \* line 407-409: return
                     /\ pc' = [pc EXCEPT ![s] = "ret_group"]
                     /\ wsState' = [new_closed EXCEPT ![s] = serve_done(new_closed[s])]
                     /\ UNCHANGED <<regVars, local_conn_id>>
                ELSE IF old_socket_not_closed(connection, wsState)
                        /\ old_closed[connection.ws] = "open"
                THEN \* line 415: the assertion fails
                     /\ pc' = [pc EXCEPT ![s] = "exc_assert"]
                     /\ wsState' = [old_closed EXCEPT ![s] = serve_done(old_closed[s])]
                     /\ UNCHANGED <<regVars, local_conn_id>>
                ELSE /\ conns' = [conns EXCEPT ![msg.conn_id] =
                                     rebind(connection, remote[s], s, msg.group)]
                     /\ wsState' = IF old_socket_not_closed(connection, wsState)
                                   THEN old_closed ELSE wsState
                     /\ pc' = [pc EXCEPT ![s] = "reading"]
                     /\ local_conn_id' = [local_conn_id EXCEPT ![s] = msg.conn_id]
                     /\ UNCHANGED <<groups, waitingQ>>
    /\ UNCHANGED <<remote, agent_token, procVars, calls>>
    /\ UNCHANGED codecVars

\* ------------------------------------------------------- receive loop
\* The handler's frame is gone once it returned or raised.
handler_exit(locals, s) == [locals EXCEPT ![s] = 0]

\* Lines 425-431: a frame arrives; deserialize_message and on_message run
\* outside any try block, so an exception of either ends the handler.
RecvFrame(s, msg) ==
    /\ pc[s] = "reading"
    /\ wsState[s] = "open"
    /\ LET d == deserialize_message(msg)
       IN  IF ~d.ok
           THEN /\ pc' = [pc EXCEPT ![s] = "exc_loop"]
                /\ wsState' = [wsState EXCEPT ![s] = serve_done(wsState[s])]
                /\ local_conn_id' = handler_exit(local_conn_id, s)
                /\ UNCHANGED procVars
           ELSE \E o \in on_message(local_conn_id[s], d.obj, procs, fut) :
                /\ procs' = o.procs
                /\ fut' = o.fut
                /\ IF o.raised
                   THEN /\ pc' = [pc EXCEPT ![s] = "exc_loop"]
                        /\ wsState' = [wsState EXCEPT ![s] = serve_done(wsState[s])]
                        /\ local_conn_id' = handler_exit(local_conn_id, s)
                   ELSE UNCHANGED <<pc, wsState, local_conn_id>>
    /\ UNCHANGED <<remote, agent_token, regVars, calls>>
    /\ UNCHANGED codecVars

\* Mutant of closed_registry: the Closed step removes the record.
closed_registry_pops(cs, gs, queues, conn_id) ==
    Connections_pop(cs, gs, queues, conn_id)

\* Mutant of closed_registry: the Closed step takes the connection out of
\* the groups, keeping its record.
closed_registry_leaves_group(cs, gs, queues, conn_id) ==
    [conns |-> cs,
     groups |-> [g \in DOMAIN gs |-> gs[g] \ {conn_id}],
     waiting |-> queues]

\* Lines 433-435: the Closed step leaves the registry alone ("Don't forget
\* the connection; the other end may reconnect").
closed_registry(cs, gs, queues, conn_id) ==
    [conns |-> cs, groups |-> gs, waiting |-> queues]

\* Lines 426-434: recv() raises on a closed socket.  ConnectionClosedError
\* breaks the loop, and `await ws.close()` on the closed socket returns;
\* ConnectionClosedOK (a clean close) is not caught and ends the handler.
RecvClosed(s, clean) ==
    /\ pc[s] = "reading"
    /\ wsState[s] = "closed"
    /\ IF clean
       THEN /\ pc' = [pc EXCEPT ![s] = "exc_loop"]
            /\ UNCHANGED <<wsState, regVars>>
       ELSE LET r == closed_registry(conns, groups, waitingQ, local_conn_id[s])
            IN  /\ pc' = [pc EXCEPT ![s] = "ret_closed"]
                /\ wsState' = [wsState EXCEPT ![s] = ws_close(wsState[s])]
                /\ conns' = r.conns
                /\ groups' = r.groups
                /\ waitingQ' = r.waiting
    /\ local_conn_id' = handler_exit(local_conn_id, s)
    /\ UNCHANGED <<remote, agent_token, procVars, calls>>
    /\ UNCHANGED codecVars

\* ------------------------------------------------------ subscriptions
\* Connections.watching, entering the context: a new empty queue.
Subscribe(q) ==
    /\ q \notin DOMAIN waitingQ
    /\ waitingQ' = MapSet(waitingQ, q, <<>>)
    /\ UNCHANGED <<sockVars, conns, groups, procVars, calls>>
    /\ UNCHANGED codecVars

\* Connections.watching, leaving the context.
Unsubscribe(q) ==
    /\ q \in DOMAIN waitingQ
    /\ waitingQ' = MapDel(waitingQ, q)
    /\ UNCHANGED <<sockVars, conns, groups, procVars, calls>>
    /\ UNCHANGED codecVars

\* events(): queue.get() returns the oldest event.
QueueGet(q) ==
    /\ q \in DOMAIN waitingQ
    /\ waitingQ[q] # <<>>
    /\ waitingQ' = [waitingQ EXCEPT ![q] = Tail(waitingQ[q])]
    /\ UNCHANGED <<sockVars, conns, groups, procVars, calls>>
    /\ UNCHANGED codecVars

\* ------------------------------------------------------------ callers
\* Process.wait on a tracked process: a new pending future joins
\* __waiting.  Futures are numbered in the order they are created.
Wait(p, f) ==
    /\ p \in DOMAIN procs
    /\ fut[f].state = "none"
    /\ \A g \in FutIds : g < f => fut[g].state # "none"
    /\ fut' = [fut EXCEPT ![f] = [state |-> "pending", val |-> None]]
    /\ procs' = [procs EXCEPT ![p].waiting = @ \cup {f}]
    /\ UNCHANGED <<sockVars, regVars, calls>>
    /\ UNCHANGED codecVars

\* The caller cancels a future it got from wait() (or the task awaiting it
\* is cancelled).
Cancel(f) ==
    /\ fut[f].state = "pending"
    /\ fut' = [fut EXCEPT ![f].state = "cancelled"]
    /\ UNCHANGED <<sockVars, regVars, procs, calls>>
    /\ UNCHANGED codecVars

\* Server.start up to the suspension in `await conn.send(...)`:
\* choose_connection raises, or the ProcStart frame is written to the
\* socket of the chosen connection.
StartCall(k, proc_id, group) ==
    /\ calls[k].pc # "sending"
    /\ LET r == choose_connection(conns, groups, wsState, group)
       IN  IF r.error # ""
           THEN calls' = [calls EXCEPT ![k] =
                    [pc |-> r.error, kind |-> "start", proc_id |-> proc_id,
                     group |-> group, conn_id |-> 0, ws |-> 0, target |-> 0]]
           ELSE \E c \in r.connections :
                calls' = [calls EXCEPT ![k] =
                    [pc |-> "sending", kind |-> "start", proc_id |-> proc_id,
                     group |-> group, conn_id |-> c, ws |-> conns[c].ws,
                     target |-> conns[c].ws]]
    /\ UNCHANGED <<sockVars, regVars, procVars>>
    /\ UNCHANGED codecVars

\* Connection.send (lines 84-95) at the moment ws.send() finishes on a
\* socket in `state`: the frame went out ("sent"); or the socket is closed
\* and ws.send() raises ConnectionClosedError, which send() swallows after
\* asserting ws.closed ("swallowed"); or the close was a clean one and
\* ws.send() raises ConnectionClosedOK, which send() does not catch.
send_outcome(state, clean) ==
    IF state # "closed" THEN "sent"
    ELSE IF clean THEN "ConnectionClosedOK" ELSE "swallowed"

\* ws.send() writes the frame at once on an open socket; on a closing one it
\* waits for the close and raises.
send_writes(state) == state = "open"

\* Server.start after the send: Connection.send returned (line 453), then
\* create (line 454) asserts that proc_id is new and inserts the Process.
StartReturn(k, clean) ==
    /\ calls[k].pc = "sending"
    /\ calls[k].kind = "start"
    /\ IF send_outcome(wsState[calls[k].target], clean) = "ConnectionClosedOK"
       THEN /\ calls' = [calls EXCEPT ![k].pc = "ConnectionClosedOK"]
            /\ UNCHANGED procs
       ELSE IF create_allowed(procs, calls[k].proc_id)
       THEN /\ procs' = create(procs, calls[k].conn_id, calls[k].proc_id)
            /\ calls' = [calls EXCEPT ![k].pc = "returned"]
       ELSE /\ calls' = [calls EXCEPT ![k].pc = "AssertionError"]
            /\ UNCHANGED procs
    /\ UNCHANGED <<sockVars, regVars, fut>>
    /\ UNCHANGED codecVars

\* Mutant of delete_procs: delete() removes the entry itself.
delete_procs_removes(ps, proc_id) == MapDel(ps, proc_id)

\* Lines 462-470: delete() does not write to the tracker.
delete_procs(ps, proc_id) == ps

\* Server.delete up to the suspension in `await conn.send(...)`: the
\* lookups of lines 467 and 469 raise KeyError, or ws.send() is called on
\* the socket the record holds now; on a closed socket it raises at once.
DeleteCall(k, proc_id, clean) ==
    /\ calls[k].pc # "sending"
    /\ IF proc_id \notin DOMAIN procs \/ procs[proc_id].conn_id \notin DOMAIN conns
       THEN /\ calls' = [calls EXCEPT ![k] =
                    [pc |-> "KeyError", kind |-> "delete", proc_id |-> proc_id,
                     group |-> 0, conn_id |-> 0, ws |-> 0, target |-> 0]]
            /\ UNCHANGED procs
       ELSE LET c == procs[proc_id].conn_id
                t == conns[c].ws
                o == send_outcome(wsState[t], clean)
            IN  /\ calls' = [calls EXCEPT ![k] =
                       [pc |-> IF wsState[t] # "closed" THEN "sending"
                               ELSE IF o = "swallowed" THEN "returned" ELSE o,
                        kind |-> "delete", proc_id |-> proc_id, group |-> 0,
                        conn_id |-> c,
                        ws |-> IF send_writes(wsState[t]) THEN t ELSE 0,
                        target |-> t]]
                /\ procs' = delete_procs(procs, proc_id)
    /\ UNCHANGED <<sockVars, regVars, fut>>
    /\ UNCHANGED codecVars

\* Server.delete after the send: ws.send() finished, or waited for the
\* close of a closing socket and raised.
DeleteReturn(k, clean) ==
    /\ calls[k].pc = "sending"
    /\ calls[k].kind = "delete"
    /\ calls[k].ws = 0 => wsState[calls[k].target] = "closed"
    /\ LET o == send_outcome(wsState[calls[k].target], clean)
       IN  calls' = [calls EXCEPT ![k].pc =
                        IF o = "ConnectionClosedOK" THEN o ELSE "returned"]
    /\ UNCHANGED <<sockVars, regVars, procVars>>
    /\ UNCHANGED codecVars

\* -------------------------------------------------------------- codec
\* serialize_message is called on a message object.
Serialize(msg) ==
    /\ codec_msg' = msg
    /\ codec_wire' = serialize_message(msg)
    /\ codec_obj' = NoObj
    /\ UNCHANGED <<sockVars, regVars, procVars, calls>>

\* A frame encoded by the peer arrives.
PeerFrame(frame) ==
    /\ codec_msg' = NoMsg
    /\ codec_wire' = [ok |-> TRUE, error |-> "", data |-> frame]
    /\ codec_obj' = NoObj
    /\ UNCHANGED <<sockVars, regVars, procVars, calls>>

\* deserialize_message is called on the bytes at hand.
Deserialize ==
    /\ codec_wire.ok
    /\ codec_obj = NoObj
    /\ codec_obj' = deserialize_message(codec_wire.data)
    /\ UNCHANGED <<sockVars, regVars, procVars, calls, codec_msg, codec_wire>>

\* ------------------------------------------------------ specifications
\* The whole system.
Next ==
    \/ \E s \in Sockets, a \in Addresses, t \in Tokens : Accept(s, a, t)
    \/ \E s \in Sockets : PeerClose(s)
    \/ \E s \in Sockets : ConnectionLost(s)
    \/ \E s \in Sockets : LoginTimeout(s)
    \/ \E s \in Sockets : LoginClosed(s)
    \/ \E s \in Sockets, msg \in Frames : LoginReject(s, msg)
    \/ \E s \in Sockets : LoginCloseDone(s)
    \/ \E s \in Sockets, msg \in Frames : Register(s, msg)
    \/ \E s \in Sockets, msg \in Frames : RecvFrame(s, msg)
    \/ \E s \in Sockets, clean \in BOOLEAN : RecvClosed(s, clean)
    \/ \E q \in SubIds : Subscribe(q)
    \/ \E q \in SubIds : Unsubscribe(q)
    \/ \E q \in SubIds : QueueGet(q)
    \/ \E p \in ProcIds, f \in FutIds : Wait(p, f)
    \/ \E f \in FutIds : Cancel(f)
    \/ \E k \in CallIds, p \in ProcIds, g \in Groups : StartCall(k, p, g)
    \/ \E k \in CallIds, clean \in BOOLEAN : StartReturn(k, clean)
    \/ \E k \in CallIds, p \in ProcIds, clean \in BOOLEAN : DeleteCall(k, p, clean)
    \/ \E k \in CallIds, clean \in BOOLEAN : DeleteReturn(k, clean)
    \/ \E msg \in Messages : Serialize(msg)
    \/ \E frame \in Frames : PeerFrame(frame)
    \/ Deserialize

Spec == Init /\ [][Next]_vars

\* Frames for the receive loops of the connection layer.  The tracker
\* reaches the registry and the sockets only through an exception that ends
\* a handler, which these frames produce as well (a frame that does not
\* decode, an IncomingMessageError), next to a frame on_message ignores.
ConnFrames ==
    RegisterFrames \cup BadFrames \cup
    {[BlankFrame EXCEPT !.type = "IncomingMessageError"],
     [BlankFrame EXCEPT !.type = "ProcUnknown", !.proc_id = 1]}

\* The connection layer: the handlers from accept to exit, the sockets and
\* the registry.  Agents hold the server's token and come from one address
\* (their ports differ); nobody subscribes to the registry.
NextConn ==
    \/ \E s \in Sockets : Accept(s, 1, access_token)
    \/ \E s \in Sockets : PeerClose(s)
    \/ \E s \in Sockets : ConnectionLost(s)
    \/ \E s \in Sockets : LoginTimeout(s)
    \/ \E s \in Sockets : LoginClosed(s)
    \/ \E s \in Sockets, msg \in Frames : LoginReject(s, msg)
    \/ \E s \in Sockets : LoginCloseDone(s)
    \/ \E s \in Sockets, msg \in Frames : Register(s, msg)
    \/ \E s \in Sockets, msg \in ConnFrames : RecvFrame(s, msg)
    \/ \E s \in Sockets, clean \in BOOLEAN : RecvClosed(s, clean)

SpecConn == Init /\ [][NextConn]_vars

\* The handshake next to the subscribers of the registry: sockets are
\* accepted, fail their login or register, while subscriptions come and go
\* and events are consumed.  Registered agents send nothing further.
NextLogin ==
    \/ \E s \in Sockets : Accept(s, 1, access_token)
    \/ \E s \in Sockets : PeerClose(s)
    \/ \E s \in Sockets : ConnectionLost(s)
    \/ \E s \in Sockets : LoginTimeout(s)
    \/ \E s \in Sockets : LoginClosed(s)
    \/ \E s \in Sockets, msg \in Frames : LoginReject(s, msg)
    \/ \E s \in Sockets : LoginCloseDone(s)
    \/ \E s \in Sockets, msg \in Frames : Register(s, msg)
    \/ \E q \in SubIds : Subscribe(q)
    \/ \E q \in SubIds : Unsubscribe(q)
    \/ \E q \in SubIds : QueueGet(q)

SpecLogin == Init /\ [][NextLogin]_vars

\* The connection layer with agents of any address and any token.
NextAuth ==
    \/ \E s \in Sockets, a \in Addresses, t \in Tokens : Accept(s, a, t)
    \/ \E s \in Sockets : PeerClose(s)
    \/ \E s \in Sockets : ConnectionLost(s)
    \/ \E s \in Sockets : LoginTimeout(s)
    \/ \E s \in Sockets : LoginClosed(s)
    \/ \E s \in Sockets, msg \in Frames : LoginReject(s, msg)
    \/ \E s \in Sockets : LoginCloseDone(s)
    \/ \E s \in Sockets, msg \in Frames : Register(s, msg)
    \/ \E s \in Sockets, msg \in ConnFrames : RecvFrame(s, msg)
    \/ \E s \in Sockets, clean \in BOOLEAN : RecvClosed(s, clean)

SpecAuth == Init /\ [][NextAuth]_vars

\* The registry and its subscribers: agents register and reconnect while
\* subscriptions come and go and events are consumed.
NextWatch ==
    \/ \E s \in Sockets : Accept(s, 1, access_token)
    \/ \E s \in Sockets : ConnectionLost(s)
    \/ \E s \in Sockets, msg \in RegisterFrames : Register(s, msg)
    \/ \E q \in SubIds : Subscribe(q)
    \/ \E q \in SubIds : Unsubscribe(q)
    \/ \E q \in SubIds : QueueGet(q)

SpecWatch == Init /\ [][NextWatch]_vars

\* The tracker fed by the receive loops, with the callers that wait on
\* processes.  Agents hold the server's token and come from one address;
\* handshakes succeed or are rejected by the registry's own checks.
NextTrack ==
    \/ \E s \in Sockets : Accept(s, 1, access_token)
    \/ \E s \in Sockets : ConnectionLost(s)
    \/ \E s \in Sockets, msg \in RegisterFrames : Register(s, msg)
    \/ \E s \in Sockets, msg \in ProcFrames : RecvFrame(s, msg)
    \/ \E s \in Sockets, clean \in BOOLEAN : RecvClosed(s, clean)
    \/ \E p \in ProcIds, f \in FutIds : Wait(p, f)
    \/ \E f \in FutIds : Cancel(f)

SpecTrack == Init /\ [][NextTrack]_vars

\* The dispatcher: start() calls against the registry and the tracker.
NextStart ==
    \/ \E s \in Sockets : Accept(s, 1, access_token)
    \/ \E s \in Sockets : PeerClose(s)
    \/ \E s \in Sockets : ConnectionLost(s)
    \/ \E s \in Sockets, msg \in RegisterFrames : Register(s, msg)
    \/ \E s \in Sockets, msg \in ProcFrames : RecvFrame(s, msg)
    \/ \E s \in Sockets, clean \in BOOLEAN : RecvClosed(s, clean)
    \/ \E k \in CallIds, p \in ProcIds, g \in Groups : StartCall(k, p, g)
    \/ \E k \in CallIds, clean \in BOOLEAN : StartReturn(k, clean)

SpecStart == Init /\ [][NextStart]_vars

\* Frames for the receive loops next to delete(): the agent lists its
\* processes and answers ProcDeleteRequest with ProcDelete.
DeleteFrames ==
    {[BlankFrame EXCEPT !.type = "ProcidList", !.proc_ids = ids] :
        ids \in SUBSET ProcIds}
    \cup {[BlankFrame EXCEPT !.type = "ProcDelete", !.proc_id = p] : p \in ProcIds}

\* delete() calls against the registry and the tracker, with callers
\* waiting on the processes.
NextDelete ==
    \/ \E s \in Sockets : Accept(s, 1, access_token)
    \/ \E s \in Sockets : PeerClose(s)
    \/ \E s \in Sockets : ConnectionLost(s)
    \/ \E s \in Sockets, msg \in RegisterFrames : Register(s, msg)
    \/ \E s \in Sockets, msg \in DeleteFrames : RecvFrame(s, msg)
    \/ \E s \in Sockets, clean \in BOOLEAN : RecvClosed(s, clean)
    \/ \E p \in ProcIds, f \in FutIds : Wait(p, f)
    \/ \E k \in CallIds, p \in ProcIds, clean \in BOOLEAN : DeleteCall(k, p, clean)
    \/ \E k \in CallIds, clean \in BOOLEAN : DeleteReturn(k, clean)

SpecDelete == Init /\ [][NextDelete]_vars

\* Frames for receive loops that meet frames that do not decode, next to
\* well-formed ones that the tracker handles without raising.
DecodeFrames ==
    BadFrames
    \cup {[BlankFrame EXCEPT !.type = "ProcidList", !.proc_ids = {p}] : p \in ProcIds}
    \cup {[BlankFrame EXCEPT !.type = "ProcResult", !.proc_id = p, !.res = r] :
            p \in ProcIds, r \in Results}

\* The receive loops under frames of any encoding; nobody waits on a
\* process, so on_message raises nothing.
NextDecode ==
    \/ \E s \in Sockets : Accept(s, 1, access_token)
    \/ \E s \in Sockets : PeerClose(s)
    \/ \E s \in Sockets : ConnectionLost(s)
    \/ \E s \in Sockets, msg \in RegisterFrames : Register(s, msg)
    \/ \E s \in Sockets, msg \in DecodeFrames : RecvFrame(s, msg)
    \/ \E s \in Sockets, clean \in BOOLEAN : RecvClosed(s, clean)

SpecDecode == Init /\ [][NextDecode]_vars

\* The codec alone: messages are encoded, frames arrive, bytes are decoded.
NextCodec ==
    \/ \E msg \in Messages : Serialize(msg)
    \/ \E frame \in Frames : PeerFrame(frame)
    \/ Deserialize

SpecCodec == Init /\ [][NextCodec]_vars

\* ------------------------------------------------------------- claims

\* C1 (SpecConn): the registry holds one record per conn_id that completed a
\* Register, indexed under exactly its group; a successful Register (the
\* handler enters the receive loop) leaves the set of records equal to the
\* old one plus its conn_id, with that record's socket and info being the
\* registering socket's, every other record untouched; and no other step
\* changes a record.
C1_Inv ==
    /\ \A c \in DOMAIN conns :
          /\ conns[c].conn_id = c
          /\ conns[c].group \in DOMAIN groups
          /\ c \in groups[conns[c].group]
    /\ \A g \in DOMAIN groups : \A c \in groups[g] :
          c \in DOMAIN conns /\ conns[c].group = g
    /\ \A s \in Sockets : pc[s] = "reading" => local_conn_id[s] \in DOMAIN conns

C1_Step ==
    /\ \A s \in Sockets :
          (pc[s] = "await_register" /\ pc'[s] = "reading") =>
              LET c == local_conn_id'[s]
              IN  /\ DOMAIN conns' = (DOMAIN conns) \cup {c}
                  /\ conns'[c].ws = s
                  /\ conns'[c].info = remote[s]
                  /\ \A d \in (DOMAIN conns) \ {c} : conns'[d] = conns[d]
    /\ (\A s \in Sockets : ~(pc[s] = "await_register" /\ pc'[s] = "reading"))
          => conns' = conns

C1_RegistrationUniqueness == []C1_Inv /\ [][C1_Step]_vars

\* C1 witness: a record was rebound: the handler of the socket that held it
\* is still in its loop while the record has the later socket, whose handler
\* is in its loop too.
C1_Witness ==
    \E c \in DOMAIN conns, s \in Sockets :
        /\ pc[s] = "reading"
        /\ local_conn_id[s] = c
        /\ conns[c].ws # s
        /\ pc[conns[c].ws] = "reading"
        /\ conns[c].info = remote[conns[c].ws]

\* C2 (SpecConn): a Register rejected for its group (the handler returns at
\* line 409) changes no record, no group set, no subscriber queue and no
\* other socket; and no step at all changes the group of a record.
C2_Step ==
    /\ \A s \in Sockets :
          (pc[s] = "await_register" /\ pc'[s] = "ret_group") =>
              /\ conns' = conns
              /\ groups' = groups
              /\ waitingQ' = waitingQ
              /\ \A t \in Sockets \ {s} : wsState'[t] = wsState[t]
    /\ \A c \in DOMAIN conns :
          c \in DOMAIN conns' /\ conns'[c].group = conns[c].group

C2_GroupChangeRejected == [][C2_Step]_vars

\* C2 witness: a handshake was rejected for its group while the socket of
\* the stored record is open.
C2_Witness ==
    \E s \in Sockets, c \in DOMAIN conns :
        pc[s] = "ret_group" /\ conns[c].ws # s /\ wsState[conns[c].ws] = "open"

\* C3 (SpecConn): a socket whose Register was rejected for its group is not
\* open from then on, is attached to no record, and its handler has ended
\* for good: it never enters the receive loop, the only place that passes
\* frames to the tracker.
C3_Inv ==
    \A s \in Sockets :
        pc[s] = "ret_group" =>
            /\ wsState[s] \in {"closing", "closed"}
            /\ \A c \in DOMAIN conns : conns[c].ws # s

C3_Step ==
    \A s \in Sockets :
        pc[s] = "ret_group" => pc'[s] = "ret_group" /\ wsState'[s] # "open"

C4_Inv ==
    /\ \A s \in Sockets :
          pc[s] \in {"login_close", "ret_login"} =>
              /\ wsState[s] # "open"
              /\ \A c \in DOMAIN conns : conns[c].ws # s
    /\ \A s \in Sockets : pc[s] = "ret_login" => wsState[s] = "closed"
    /\ DOMAIN conns \subseteq ConnIds

C4_Step ==
    \A s \in Sockets :
        /\ (pc'[s] # pc[s] /\ pc'[s] \in {"login_close", "ret_login"})
              => (conns' = conns /\ groups' = groups /\ waitingQ' = waitingQ)
        /\ pc[s] = "login_close" => pc'[s] \in {"login_close", "ret_login"}
        /\ pc[s] = "ret_login" => pc'[s] = "ret_login"

C4_FailedHandshake == []C4_Inv /\ [][C4_Step]_vars

\* C4 witness: a handshake has failed and its handler returned while the
\* registry holds a record and a subscriber has an event queued.
C4_Witness ==
    \E s \in Sockets, q \in DOMAIN waitingQ :
        pc[s] = "ret_login" /\ DOMAIN conns # {} /\ waitingQ[q] # <<>>

\* C5 (SpecAuth), the claim as stated: with a non-empty configured token,
\* the socket of every record was registered by an agent presenting that
\* token.
C5_TokenChecked ==
    \A c \in DOMAIN conns :
        access_token = "" \/ agent_token[conns[c].ws] = access_token

\* C6 (SpecStart): start() writes its ProcStart to the socket of a record
\* whose group is the requested one and whose socket is open at that moment,
\* and the Process it creates has that record's conn_id.
C6_Inv ==
    \A k \in CallIds :
        calls[k].pc \in {"sending", "returned"} =>
            /\ calls[k].conn_id \in DOMAIN conns
            /\ conns[calls[k].conn_id].group = calls[k].group

C6_Step ==
    \A k \in CallIds :
        /\ (calls[k].pc # "sending" /\ calls'[k].pc = "sending") =>
              LET c == calls'[k].conn_id
              IN  /\ c \in DOMAIN conns
                  /\ conns[c].group = calls'[k].group
                  /\ wsState[conns[c].ws] = "open"
                  /\ calls'[k].ws = conns[c].ws
        /\ (calls[k].pc = "sending" /\ calls'[k].pc = "returned") =>
              /\ calls[k].proc_id \in DOMAIN procs'
              /\ procs'[calls[k].proc_id].conn_id = calls[k].conn_id

C6_GroupDispatch == []C6_Inv /\ [][C6_Step]_vars

\* C6 witness: a start returned while a connection of another group is open.
C6_Witness ==
    \E k \in CallIds, c \in DOMAIN conns :
        /\ calls[k].pc = "returned"
        /\ conns[c].group # calls[k].group
        /\ wsState[conns[c].ws] = "open"

\* C7 (SpecStart): start() on group g raises NoGroupError exactly when no
\* record has group g, and NoOpenConnectionInGroup exactly when some record
\* has group g and the socket of every such record is not open (closing or
\* closed); in both cases it writes no frame and leaves the tracker and the
\* futures as they were.
StartErrors == {"NoGroupError", "NoOpenConnectionInGroup"}

C7_Step ==
    \A k \in CallIds :
        (calls[k].pc # "sending" /\ calls'[k] # calls[k]) =>
            LET g == calls'[k].group
                recs == {c \in DOMAIN conns : conns[c].group = g}
            IN  /\ calls'[k].pc = "NoGroupError" <=> recs = {}
                /\ calls'[k].pc = "NoOpenConnectionInGroup" <=>
                      (recs # {} /\ \A c \in recs : wsState[conns[c].ws] # "open")
                /\ calls'[k].pc \in StartErrors =>
                      (calls'[k].ws = 0 /\ procs' = procs /\ fut' = fut)

C7_StartErrors == [][C7_Step]_vars

\* C7 witness: a start failed with NoOpenConnectionInGroup while the tracker
\* holds a process and a connection of another group is open.
C7_Witness ==
    \E k \in CallIds, c \in DOMAIN conns :
        /\ calls[k].pc = "NoOpenConnectionInGroup"
        /\ conns[c].group # calls[k].group
        /\ wsState[conns[c].ws] = "open"
        /\ DOMAIN procs # {}

\* C8 (SpecConn): a conn_id in the registry stays in the registry and in
\* the set of its group at every step; the Closed step of a handler ends
\* with its socket closed and changes nothing in the registry.
C8_Step ==
    /\ \A c \in DOMAIN conns :
          /\ c \in DOMAIN conns'
          /\ conns'[c].group \in DOMAIN groups'
          /\ c \in groups'[conns'[c].group]
    /\ \A s \in Sockets :
          (pc[s] = "reading" /\ pc'[s] = "ret_closed") =>
              /\ wsState'[s] = "closed"
              /\ conns' = conns /\ groups' = groups /\ waitingQ' = waitingQ

C8_RecordSurvives == [][C8_Step]_vars

\* C8 witness: the handler of a record's socket has run its Closed step and
\* the record is still there.
C8_Witness ==
    \E c \in DOMAIN conns : pc[conns[c].ws] = "ret_closed"

\* C9 (SpecConn), the claim as stated: a Register that passes the login and
\* group checks ends with its socket in the record of its conn_id, and the
\* socket that record held before is then no longer open.
C9_Step ==
    \A s \in Sockets :
        (pc[s] = "await_register" /\ pc'[s] \in {"reading", "exc_assert"}) =>
            \E c \in DOMAIN conns' :
                /\ conns'[c].ws = s
                /\ c \in DOMAIN conns => wsState'[conns[c].ws] # "open"

C9_OldSocketClosedThenSwapped == [][C9_Step]_vars

\* C10 (SpecTrack), the claim as stated: the step that removes p from the
\* tracker resolves every pending waiter of p with None, and a resolved
\* waiter keeps its value.
C10_Step ==
    /\ \A p \in DOMAIN procs :
          p \notin DOMAIN procs' =>
              \A f \in procs[p].waiting :
                  fut[f].state = "pending" =>
                      fut'[f] = [state |-> "done", val |-> None]
    /\ \A f \in FutIds : fut[f].state = "done" => fut'[f] = fut[f]

C10_DeleteFinality == [][C10_Step]_vars

\* C11 (SpecTrack), the claim as stated: a step that applies an event to p
\* (p leaves the tracker, its result changes, or one of its waiters is
\* resolved) resolves every pending waiter of p with the event's value (None
\* for a ProcDelete, the new result for a ProcResult) and leaves the waiter
\* set of p empty; a future handed out by wait() starts pending.
C11_Step ==
    /\ \A p \in DOMAIN procs :
          LET deleted == p \notin DOMAIN procs'
              event == \/ deleted
                       \/ procs'[p].result # procs[p].result
                       \/ \E f \in procs[p].waiting :
                             fut[f].state = "pending" /\ fut'[f].state = "done"
              value == IF deleted THEN None ELSE procs'[p].result
          IN  event =>
                  /\ \A f \in procs[p].waiting :
                        fut[f].state = "pending" =>
                            fut'[f] = [state |-> "done", val |-> value]
                  /\ ~deleted => procs'[p].waiting = {}
    /\ \A f \in FutIds :
          (fut[f].state = "none" /\ fut'[f].state # "none") =>
              fut'[f].state = "pending"

C11_WaitersSeeEvent == [][C11_Step]_vars

\* C12 (SpecTrack): a step that adds entries without a result to the
\* tracker (only a ProcidList does: a ProcResult stores its result in the
\* entry it creates) is taken by the handler of an open socket of a
\* registered connection c; every new entry is a fresh Process of c (no
\* result, no waiters), every entry that was there is unchanged, and no
\* future changes.
C12_Step ==
    LET new == {p \in (DOMAIN procs') \ (DOMAIN procs) : procs'[p].result = None}
    IN  new # {} =>
            /\ \E s \in Sockets :
                  /\ pc[s] = "reading"
                  /\ wsState[s] = "open"
                  /\ local_conn_id[s] \in DOMAIN conns
                  /\ \A p \in new : procs'[p] = Process(local_conn_id[s], p)
            /\ \A p \in DOMAIN procs : p \in DOMAIN procs' /\ procs'[p] = procs[p]
            /\ fut' = fut

C13_Step ==
    LET added == (DOMAIN conns') \ (DOMAIN conns)
        removed == (DOMAIN conns) \ (DOMAIN conns')
    IN  /\ Cardinality(added \cup removed) <= 1
        /\ \A c \in added :
              /\ DOMAIN waitingQ' = DOMAIN waitingQ
              /\ \A q \in DOMAIN waitingQ :
                    waitingQ'[q] = Append(waitingQ[q], <<c, TRUE>>)
        /\ \A c \in removed :
              /\ DOMAIN waitingQ' = DOMAIN waitingQ
              /\ \A q \in DOMAIN waitingQ :
                    waitingQ'[q] = Append(waitingQ[q], <<c, FALSE>>)
        /\ (added \cup removed = {}) =>
              \A q \in (DOMAIN waitingQ) \cap (DOMAIN waitingQ') :
                  \/ waitingQ'[q] = waitingQ[q]
                  \/ waitingQ[q] # <<>> /\ waitingQ'[q] = Tail(waitingQ[q])
        /\ \A q \in (DOMAIN waitingQ') \ (DOMAIN waitingQ) : waitingQ'[q] = <<>>

C13_SubscribersSeeEvents == [][C13_Step]_vars

\* C13 witness: of two simultaneous subscribers, one holds both add events
\* in commit order, the other subscribed between them and holds the second.
C13_Witness ==
    \E q \in DOMAIN waitingQ, r \in DOMAIN waitingQ, c \in ConnIds, d \in ConnIds :
        /\ c # d
        /\ waitingQ[q] = <<(<<c, TRUE>>), (<<d, TRUE>>)>>
        /\ waitingQ[r] = <<(<<d, TRUE>>)>>
        /\ DOMAIN conns = {c, d}

\* C14 (SpecStart): the step in which start() returns stores, under the
\* call's proc_id, a fresh Process (no result, no waiters) whose conn_id is
\* that of the connection whose socket got the ProcStart; proc_id was not in
\* the tracker, every other entry is unchanged, so a tracker that was empty
\* holds exactly one process.
C14_Step ==
    \A k \in CallIds :
        (calls[k].kind = "start" /\ calls[k].pc = "sending"
            /\ calls'[k].pc = "returned") =>
            LET p == calls[k].proc_id
            IN  /\ calls[k].ws # 0
                /\ calls[k].conn_id \in DOMAIN conns
                /\ p \notin DOMAIN procs
                /\ DOMAIN procs' = (DOMAIN procs) \cup {p}
                /\ procs'[p].proc_id = p
                /\ procs'[p].conn_id = calls[k].conn_id
                /\ procs'[p].result = None
                /\ procs'[p].waiting = {}
                /\ \A q \in DOMAIN procs : procs'[q] = procs[q]
                /\ procs = EmptyMap => Cardinality(DOMAIN procs') = 1

C15_Step ==
    \A k \in CallIds :
        (calls'[k].kind = "delete" /\ calls'[k].pc = "returned"
            /\ calls'[k] # calls[k]) =>
            calls'[k].proc_id \notin DOMAIN procs'

C15_DeleteRemoves == [][C15_Step]_vars

\* C16 (SpecDelete): a step of a delete() call leaves the tracker, the
\* futures, the registry and the sockets as they are, and the frame it
\* writes goes to the socket held by the record of the process's conn_id;
\* an entry leaves the tracker only in a step of a receive loop (no call
\* moves, and the handler of an open socket is reading).
C16_Step ==
    /\ \A k \in CallIds :
          (calls'[k] # calls[k] /\ calls'[k].kind = "delete") =>
              /\ procs' = procs
              /\ fut' = fut
              /\ conns' = conns
              /\ wsState' = wsState
              /\ (calls[k].pc # "sending" /\ calls'[k].ws # 0) =>
                    /\ calls'[k].proc_id \in DOMAIN procs
                    /\ calls'[k].ws = conns[procs[calls'[k].proc_id].conn_id].ws
    /\ \A p \in DOMAIN procs :
          p \notin DOMAIN procs' =>
              /\ calls' = calls
              /\ \E s \in Sockets : pc[s] = "reading" /\ wsState[s] = "open"

C17_Step ==
    \A k \in CallIds :
        (calls[k].kind = "start" /\ calls[k].pc = "sending"
            /\ wsState[calls[k].target] = "closed" /\ calls'[k] # calls[k]) =>
            \/ /\ calls'[k].pc = "sending"
               /\ calls'[k].target # calls[k].target
               /\ wsState[calls'[k].target] = "open"
               /\ conns[calls'[k].conn_id].group = calls[k].group
            \/ calls'[k].pc = "TransportClosed"

C17_StartRetries == [][C17_Step]_vars

\* C18 (SpecDelete), the claim as stated: a call whose send ends on a closed
\* socket (it was suspended in the send when the socket closed, or it called
\* send on a socket already closed) ends with TransportClosed, and the
\* registry is unchanged.
C18_Step ==
    \A k \in CallIds :
        (calls'[k] # calls[k]
            /\ \/ calls[k].pc = "sending" /\ wsState[calls[k].target] = "closed"
               \/ /\ calls[k].pc # "sending"
                  /\ calls'[k].target # 0
                  /\ wsState[calls'[k].target] = "closed") =>
            /\ calls'[k].pc = "TransportClosed"
            /\ conns' = conns
            /\ groups' = groups

C18_SendSurfacesClose == [][C18_Step]_vars

\* C19 (SpecDecode), the claim as stated: a handler that is in its receive
\* loop with its socket open is still in the loop after any step, whatever
\* frame arrives.
C19_Step ==
    \A s \in Sockets :
        (pc[s] = "reading" /\ wsState[s] = "open") =>
            pc'[s] = "reading" /\ wsState'[s] # "none"

C19_DecodeErrorSkipped == [][C19_Step]_vars

\* C20 (SpecTrack), the claim as stated: a step in which a socket closes or
\* the registry changes leaves the tracker and the futures as they are; and
\* once the socket of p's connection was lost and its record holds a later
\* socket whose handler is reading, a ProcResult for p applied in a step
\* (the result of p changes or a waiter of p is resolved) resolves every
\* pending waiter of p with that result.
C20_Step ==
    /\ ((\E s \in Sockets : wsState[s] # "closed" /\ wsState'[s] = "closed")
            \/ conns' # conns) =>
          (procs' = procs /\ fut' = fut)
    /\ \A p \in (DOMAIN procs) \cap (DOMAIN procs') :
          \A s \in Sockets, t \in Sockets :
              (/\ s # t
               /\ wsState[t] = "closed"
               /\ pc[t] = "reading"
               /\ local_conn_id[t] = procs[p].conn_id
               /\ pc[s] = "reading"
               /\ wsState[s] = "open"
               /\ conns[procs[p].conn_id].ws = s
               /\ local_conn_id[s] = procs[p].conn_id
               /\ \/ procs'[p].result # procs[p].result
                  \/ \E f \in procs[p].waiting :
                        fut[f].state = "pending" /\ fut'[f].state = "done") =>
                  \A f \in procs[p].waiting :
                      fut[f].state = "pending" =>
                          fut'[f] = [state |-> "done", val |-> procs'[p].result]

C20_WaitersSurviveReconnect == [][C20_Step]_vars

\* C21 (SpecCodec), the claim as stated: every message variant can be
\* encoded, and decoding the bytes of its encoding gives its tag and a value
\* equal to it.
C21_RoundTrip ==
    codec_msg # NoMsg =>
        /\ codec_wire.ok
        /\ codec_obj # NoObj =>
              /\ codec_obj.ok
              /\ codec_obj.type = codec_msg.cls
              /\ from_jso(codec_obj.type, codec_obj.obj) = codec_msg

\* C22 (SpecDelete), the claim as stated: a delete() for a proc_id that is
\* not in the tracker ends with NoProcessError, one for a process whose
\* conn_id is not in the registry ends with NoConnectionError; neither
\* writes a frame or changes the tracker.
C22_Step ==
    \A k \in CallIds :
        (calls'[k] # calls[k] /\ calls'[k].kind = "delete"
            /\ calls[k].pc # "sending") =>
            LET p == calls'[k].proc_id
            IN  /\ p \notin DOMAIN procs =>
                      /\ calls'[k].pc = "NoProcessError"
                      /\ calls'[k].ws = 0
                      /\ procs' = procs
                /\ (p \in DOMAIN procs /\ procs[p].conn_id \notin DOMAIN conns) =>
                      /\ calls'[k].pc = "NoConnectionError"
                      /\ calls'[k].ws = 0
                      /\ procs' = procs

C22_DeleteLookupErrors == [][C22_Step]_vars

\* C23 (SpecTrack), the claim as stated: the handler of a socket applies
\* each frame as it is received; a ProcResult(p, res) leaves res as the
\* result of p and resolves every waiter of p that was pending with res, and
\* the result of a tracked process changes in no other step.
C23_Step ==
    /\ \A s \in Sockets, msg \in ProcFrames :
          (msg.type = "ProcResult" /\ RecvFrame(s, msg)) =>
              LET p == msg.proc_id
                  waiters == IF p \in DOMAIN procs THEN procs[p].waiting ELSE {}
              IN  /\ p \in DOMAIN procs'
                  /\ procs'[p].result = msg.res
                  /\ \A f \in waiters :
                        fut[f].state = "pending" =>
                            fut'[f] = [state |-> "done", val |-> msg.res]
    /\ \A p \in (DOMAIN procs) \cap (DOMAIN procs') :
          procs'[p].result # procs[p].result =>
              \E s \in Sockets, msg \in ProcFrames :
                  /\ msg.type = "ProcResult"
                  /\ msg.proc_id = p
                  /\ msg.res = procs'[p].result
                  /\ RecvFrame(s, msg)

C23_ResultsInOrder == [][C23_Step]_vars

\* C24 (SpecTrack), the claim as stated: wherever a handler can receive
\* ProcUnknown(p) for a tracked p, on_message returns normally, appends one
\* error to the errors of p, resolves every pending waiter of p and leaves
\* the waiter set of p empty.
C24_UnknownRecorded ==
    \A s \in Sockets, p \in DOMAIN procs :
        (pc[s] = "reading" /\ wsState[s] = "open") =>
            LET d == deserialize_message(
                         [BlankFrame EXCEPT !.type = "ProcUnknown", !.proc_id = p])
            IN  /\ d.ok
                /\ \A o \in on_message(local_conn_id[s], d.obj, procs, fut) :
                      /\ ~o.raised
                      /\ p \in DOMAIN o.procs
                      /\ Len(o.procs[p].errors) = Len(procs[p].errors) + 1
                      /\ o.procs[p].waiting = {}
                      /\ \A f \in procs[p].waiting :
                            fut[f].state = "pending" => o.fut[f].state = "done"

\* C25 (SpecTrack), the claim as stated: a handler that receives an
\* IncomingMessageError keeps reading on its open socket, and the tracker
\* changes at most by an error appended to the process the message names.
C25_Step ==
    \A s \in Sockets, msg \in ProcFrames :
        (msg.type = "IncomingMessageError" /\ RecvFrame(s, msg)) =>
            /\ pc'[s] = "reading"
            /\ wsState'[s] = "open"
            /\ local_conn_id'[s] = local_conn_id[s]
            /\ DOMAIN procs' = DOMAIN procs
            /\ \A p \in DOMAIN procs :
                  /\ p # msg.proc_id => procs'[p] = procs[p]
                  /\ [procs'[p] EXCEPT !.errors = <<>>] =
                         [procs[p] EXCEPT !.errors = <<>>]

C25_ErrorKeepsHandler == [][C25_Step]_vars

\* C26 (SpecTrack), the claim as stated: cancelling a waiter changes that
\* future only, the tracker and the other futures stay as they are; and a
\* ProcResult or ProcDelete for a process with a cancelled waiter in its set
\* is applied in full: every pending waiter gets the event's value, the
\* waiter set ends empty (or the entry is gone), and the handler reads on.
C26_Step ==
    /\ \A f \in FutIds :
          (fut[f].state = "pending" /\ fut'[f].state = "cancelled") =>
              /\ procs' = procs
              /\ \A g \in FutIds \ {f} : fut'[g] = fut[g]
    /\ \A s \in Sockets, msg \in ProcFrames :
          (/\ msg.type \in {"ProcResult", "ProcDelete"}
           /\ msg.proc_id \in DOMAIN procs
           /\ \E f \in procs[msg.proc_id].waiting : fut[f].state = "cancelled"
           /\ RecvFrame(s, msg)) =>
              LET p == msg.proc_id
                  value == IF msg.type = "ProcDelete" THEN None ELSE msg.res
              IN  /\ \A f \in procs[p].waiting :
                        fut[f].state = "pending" =>
                            fut'[f] = [state |-> "done", val |-> value]
                  /\ IF msg.type = "ProcDelete"
                     THEN p \notin DOMAIN procs'
                     ELSE /\ p \in DOMAIN procs'
                          /\ procs'[p].result = msg.res
                          /\ procs'[p].waiting = {}
                  /\ pc'[s] = "reading"

C26_CancelReleasesOne == [][C26_Step]_vars

\* C27 (SpecTrack), the claim as stated: wherever a handler can receive
\* ProcDelete(p) for a tracked p, the tracker it leaves has no p, and a
\* message handled after it that names p (a ProcResult, a ProcidList that
\* lists p, another ProcDelete) still leaves no p; a second ProcDelete(p)
\* leaves the tracker as the first one did.
C27_DeletedStaysAbsent ==
    \A s \in Sockets, p \in DOMAIN procs :
        (pc[s] = "reading" /\ wsState[s] = "open") =>
            LET c == local_conn_id[s]
                del == deserialize_message(
                           [BlankFrame EXCEPT !.type = "ProcDelete", !.proc_id = p])
                names(msg) ==
                    \/ msg.type \in {"ProcResult", "ProcDelete"} /\ msg.proc_id = p
                    \/ msg.type = "ProcidList" /\ p \in msg.proc_ids
            IN  \A o1 \in on_message(c, del.obj, procs, fut) :
                    /\ p \notin DOMAIN o1.procs
                    /\ \A msg \in ProcFrames :
                          names(msg) =>
                              \A o2 \in on_message(c, deserialize_message(msg).obj,
                                                   o1.procs, o1.fut) :
                                  /\ p \notin DOMAIN o2.procs
                                  /\ msg.type = "ProcDelete" => o2.procs = o1.procs

C29_Step ==
    \A k \in CallIds :
        (/\ calls[k].pc # "sending"
         /\ calls'[k] # calls[k]
         /\ calls'[k].kind = "start"
         /\ calls'[k].proc_id \in DOMAIN procs
         /\ calls'[k].pc \notin {"NoGroupError", "NoOpenConnectionInGroup"}) =>
            /\ calls'[k].pc = "AssertionError"
            /\ calls'[k].ws = 0
            /\ procs' = procs

C29_DuplicateStartSendsNothing == [][C29_Step]_vars

\* C30 (SpecConn): when the handler of a socket s that a rebind has
\* replaced in the record of its connection c leaves the receive loop on the
\* close of s, the record of c and the groups stay as they are, no socket
\* other than s changes state, and if the record's socket is open it stays
\* open and c is still among the connections choose_connection picks from
\* for its group.
C30_Step ==
    \A s \in Sockets :
        (/\ pc[s] = "reading"
         /\ wsState[s] = "closed"
         /\ pc'[s] # "reading"
         /\ local_conn_id[s] \in DOMAIN conns
         /\ conns[local_conn_id[s]].ws # s) =>
            LET c == local_conn_id[s]
                t == conns[c].ws
            IN  /\ c \in DOMAIN conns'
                /\ conns'[c] = conns[c]
                /\ groups' = groups
                /\ \A u \in Sockets \ {s} : wsState'[u] = wsState[u]
                /\ wsState'[s] = "closed"
                /\ wsState[t] = "open" =>
                      /\ wsState'[t] = "open"
                      /\ c \in choose_connection(conns', groups', wsState',
                                                 conns'[c].group).connections

C30_SupersededCloseIsLocal == [][C30_Step]_vars

\* The handler of the replaced socket has returned from its Closed step,
\* the only record holds the other socket, which is open and being read,
\* and choose_connection picks the connection.
C30_Witness ==
    \E s \in Sockets, c \in ConnIds :
        /\ pc[s] = "ret_closed"
        /\ wsState[s] = "closed"
        /\ DOMAIN conns = {c}
        /\ conns[c].ws # s
        /\ pc[conns[c].ws] = "reading"
        /\ wsState[conns[c].ws] = "open"
        /\ c \in choose_connection(conns, groups, wsState, conns[c].group).connections

\* C31 (SpecLogin): handshakes of several sockets interleave only at their
\* awaits, and the lookup of line 381 and the _add of line 394 have none
\* between them.  A Register for a conn_id the registry does not hold
\* inserts its record, with the registering socket, and puts exactly one add
\* event on the queue of every subscriber; a Register for a conn_id the
\* registry holds, whichever socket it is from, goes down the reconnect
\* branch (lines 396-420): it adds no record, emits no event and leaves the
\* groups alone.  So _add is never called for a conn_id that is present.
C31_Step ==
    \A s \in Sockets, msg \in Frames :
        Register(s, msg) =>
            LET c == msg.conn_id
            IN  IF c \notin DOMAIN conns
                THEN /\ DOMAIN conns' = (DOMAIN conns) \cup {c}
                     /\ conns'[c].ws = s
                     /\ \A d \in DOMAIN conns : conns'[d] = conns[d]
                     /\ DOMAIN waitingQ' = DOMAIN waitingQ
                     /\ \A q \in DOMAIN waitingQ :
                           waitingQ'[q] = Append(waitingQ[q], <<c, TRUE>>)
                     /\ pc'[s] = "reading"
                ELSE /\ DOMAIN conns' = DOMAIN conns
                     /\ \A d \in (DOMAIN conns) \ {c} : conns'[d] = conns[d]
                     /\ waitingQ' = waitingQ
                     /\ groups' = groups
                     /\ pc'[s] \in {"reading", "ret_group", "exc_assert"}

====
